---- MODULE Spec2Model ----
(***************************************************************************)
(* Tune-Central ("ML Model/app.py", "ML Model/fix_database.py").            *)
(*                                                                         *)
(* A Flask service over three artifacts: api_data.csv (the catalog, read   *)
(* into df_scaled), similarity_matrix.npy (the similarity matrix) and      *)
(* music.db (the songs table, built by fix_database.py).                   *)
(*                                                                         *)
(* Conventions of the model:                                               *)
(*   - catalog rows, matrix rows/columns and positions are 0-based, as in  *)
(*     pandas/numpy; Python lists are TLA+ sequences (1-based), so list    *)
(*     element k is s[k+1];                                                *)
(*   - audio features are fixed-point integers in hundredths (0.7 is 70,   *)
(*     0.08 is 8, 0.75 is 75); tempo is in BPM;                            *)
(*   - titles of a catalog are pairwise distinct (fix_database.py drops    *)
(*     duplicate (name, artists) pairs and declares title PRIMARY KEY).    *)
(***************************************************************************)
EXTENDS Integers, Sequences, FiniteSets, TLC

VARIABLES
    api_data,           \* file api_data.csv: Absent, or the catalog it holds
    matrix_file,        \* file similarity_matrix.npy: Absent, or the matrix it holds
    proc,               \* the process: "starting", "serving" or "exited"
    df_scaled,          \* app.py global: the loaded catalog
    similarity_matrix,  \* app.py global: the loaded matrix
    indices,            \* app.py global: title -> row position
    out,                \* the last call/request and what it produced
    songs,              \* music.db: the rows of table songs, in rowid order
    db_state,           \* music.db: "ok", "no_table" or "bad_text"
    pc,                 \* per mood request: the handler's position
    conn,               \* per mood request: its connection, "none", "open" or "closed"
    mood_of,            \* per mood request: its mood query parameter
    resp                \* per mood request: its response

vars == <<api_data, matrix_file, proc, df_scaled, similarity_matrix, indices,
          out, songs, db_state, pc, conn, mood_of, resp>>

----------------------------------------------------------------------------
(* Bounds *)

\* largest catalog (rows) and largest matrix dimension
MaxN == 3

\* similarity scores are 0..MaxScore; MaxScore is the self-similarity
MaxScore == 1

\* get_recommendations is called with top_n in -MaxTopN..MaxTopN, and with 5
MaxTopN == 3

\* /trending: the artists values in use are the first MaxArtists of ArtistNames
MaxArtists == 2

\* /trending: popularity values are 0..MaxPopularity
MaxPopularity == 1

\* /recommend_mood: table songs holds up to MaxInside rows inside the mood's
\* thresholds (besides the rows on a threshold)
MaxInside == 6

\* /recommend_mood: concurrent requests in flight
MaxRequests == 2

----------------------------------------------------------------------------
(* Values *)

Absent == <<"absent">>

\* a Python str argument that may be None: {} is None, {s} is the string s
None == {}

SongNames == <<"A", "B", "C", "D", "E", "F", "G", "H", "I", "J", "K", "L">>

\* in ascending string order
ArtistNames == <<"N", "O", "P", "Q", "R", "S", "T", "U", "V", "W", "X", "Y">>

\* df_processed['title'] = df_processed['name'] + " by " + df_processed['artists']
MakeTitle(name, artists) == name \o " by " \o artists

Min(a, b) == IF a < b THEN a ELSE b

Max(a, b) == IF a > b THEN a ELSE b

\* a catalog row as the service reads it
Row(name, artists, popularity) ==
    [name |-> name, artists |-> artists, title |-> MakeTitle(name, artists),
     popularity |-> popularity]

\* the catalog of n rows with pairwise distinct titles: row i is song i by artist i
CatalogOfSize(n) ==
    [i \in 0..(n - 1) |-> Row(SongNames[i + 1], ArtistNames[i + 1], i)]

NRows(df) == Cardinality(DOMAIN df)

\* the square matrices a cosine-similarity build produces: symmetric, with the
\* self-similarity MaxScore on the diagonal and any score up to it elsewhere
Pairs(d) == {p \in (0..(d - 1)) \X (0..(d - 1)) : p[1] < p[2]}

MatrixOf(d, u) ==
    [i \in 0..(d - 1) |-> [j \in 0..(d - 1) |->
        IF i = j THEN MaxScore ELSE u[<<Min(i, j), Max(i, j)>>]]]

Matrices(d) == {MatrixOf(d, u) : u \in [Pairs(d) -> 0..MaxScore]}

NoRet == [kind |-> "", text |-> "", positions |-> <<>>, titles |-> <<>>]

NoBody == [key |-> "", error |-> "", recommendations |-> <<>>]

NoOut == [op |-> "", arg |-> None, top_n |-> 0, ret |-> NoRet,
          status |-> 0, body |-> NoBody]

----------------------------------------------------------------------------
(* Startup: app.py lines 11-25 *)

\* indices = pd.Series(df_scaled.index, index=df_scaled['title']).drop_duplicates()
\* drop_duplicates() drops repeated VALUES (row positions), of which there are none
TitleIndex(df) ==
    [t \in {df[i].title : i \in DOMAIN df} |->
        CHOOSE i \in DOMAIN df : df[i].title = t]

\* read_csv and np.load raise FileNotFoundError for an absent file, which the
\* handler turns into exit(); nothing else is checked before serving
LoadSucceeds == api_data # Absent /\ matrix_file # Absent

Load ==
    /\ proc = "starting"
    /\ IF LoadSucceeds
       THEN /\ df_scaled' = api_data
            /\ similarity_matrix' = matrix_file
            /\ indices' = TitleIndex(api_data)
            /\ proc' = "serving"
       ELSE /\ proc' = "exited"
            /\ UNCHANGED <<df_scaled, similarity_matrix, indices>>
    /\ UNCHANGED <<api_data, matrix_file, out, songs, db_state, pc, conn, mood_of, resp>>

----------------------------------------------------------------------------
(* get_recommendations: app.py lines 29-54 *)

\* list(enumerate(row)): the pairs <<position, score>> in position order
Enumerate(row) == [k \in 1..Cardinality(DOMAIN row) |-> <<k - 1, row[k - 1]>>]

\* an insertion that puts x in front of the pairs with an equal score
InsertDescUnstable(s, x) ==
    LET n == Cardinality({k \in 1..Len(s) : s[k][2] > x[2]})
    IN  SubSeq(s, 1, n) \o <<x>> \o SubSeq(s, n + 1, Len(s))

\* insert pair x into the descending list s behind every pair whose score is
\* not smaller: equal scores keep their input order
InsertDesc(s, x) ==
    LET n == Cardinality({k \in 1..Len(s) : s[k][2] >= x[2]})
    IN  SubSeq(s, 1, n) \o <<x>> \o SubSeq(s, n + 1, Len(s))

RECURSIVE SortedDescFrom(_, _, _)
SortedDescFrom(s, k, acc) ==
    IF k > Len(s) THEN acc ELSE SortedDescFrom(s, k + 1, InsertDesc(acc, s[k]))

\* sorted(sim_scores, key=lambda x: x[1], reverse=True): stable, descending
SortedDesc(s) == SortedDescFrom(s, 1, <<>>)

\* Python's s[start:stop] on a list: negative bounds count from the end,
\* out-of-range bounds are clamped
SliceBound(b, len) == IF b < 0 THEN Max(0, len + b) ELSE Min(b, len)

Slice(s, start, stop) ==
    SubSeq(s, SliceBound(start, Len(s)) + 1, SliceBound(stop, Len(s)))

\* a message that leaves the title out
NotFoundTextNoTitle(song_title) == "Error: Song not found in the dataset."

\* f"Error: Song '{song_title}' not found in the dataset."
NotFoundText(song_title) ==
    "Error: Song '" \o song_title \o "' not found in the dataset."

StrRet(text) == [kind |-> "str", text |-> text, positions |-> <<>>, titles |-> <<>>]

RaiseRet(exc) == [kind |-> "raise", text |-> exc, positions |-> <<>>, titles |-> <<>>]

\* df_scaled['title'].iloc[song_indices]: a Series of titles labelled by position
SeriesRet(song_indices) ==
    [kind |-> "Series", text |-> "", positions |-> song_indices,
     titles |-> [k \in 1..Len(song_indices) |-> df_scaled[song_indices[k]].title]]

\* sim_scores[1:top_n+1], then the positions of what is left
SongIndices(idx, top_n) ==
    LET sim_scores == SortedDesc(Enumerate(similarity_matrix[idx]))
        kept == Slice(sim_scores, 1, top_n + 1)
    IN  [k \in 1..Len(kept) |-> kept[k][1]]

get_recommendations(song_title, top_n) ==
    IF song_title \notin DOMAIN indices
    THEN StrRet(NotFoundText(song_title))
    ELSE LET idx == indices[song_title]
         IN  IF idx \notin DOMAIN similarity_matrix
             THEN RaiseRet("IndexError")
             ELSE LET song_indices == SongIndices(idx, top_n)
                  IN  IF \E k \in 1..Len(song_indices) :
                            song_indices[k] \notin DOMAIN df_scaled
                      THEN RaiseRet("IndexError")
                      ELSE SeriesRet(song_indices)

----------------------------------------------------------------------------
(* The /recommend endpoint: app.py lines 57-78 *)

\* top_n=5, the default of get_recommendations and what recommend_songs passes
DefaultTopN == 5

ErrorBody(text) == [key |-> "error", error |-> text, recommendations |-> <<>>]

ListBody(items) == [key |-> "recommendations", error |-> "", recommendations |-> items]

\* the response of recommend_songs for request.args.get('song') = arg
recommend_songs(arg) ==
    IF arg = None \/ arg = {""}
    THEN [op |-> "recommend_songs", arg |-> arg, top_n |-> DefaultTopN, ret |-> NoRet,
          status |-> 400, body |-> ErrorBody("A \"song\" query parameter is required.")]
    ELSE LET song_title == CHOOSE s \in arg : TRUE
             recs == get_recommendations(song_title, DefaultTopN)
         IN  [op |-> "recommend_songs", arg |-> arg, top_n |-> DefaultTopN, ret |-> recs,
              status |-> CASE recs.kind = "str" -> 404
                           [] recs.kind = "raise" -> 500
                           [] OTHER -> 200,
              body |-> CASE recs.kind = "str" -> ErrorBody(recs.text)
                         [] recs.kind = "raise" -> NoBody
                         [] OTHER -> ListBody(recs.titles)]

\* the title strings callers ask for: every title a catalog can hold, a title
\* no catalog holds, and the empty string
QueryTitles ==
    {CatalogOfSize(MaxN)[i].title : i \in 0..(MaxN - 1)} \cup {"Unknown Song", ""}

TopNs == ((0 - MaxTopN)..MaxTopN) \cup {DefaultTopN}

\* a direct call get_recommendations(song_title, top_n)
CallGetRecommendations ==
    /\ proc = "serving"
    /\ out = NoOut
    /\ \E song_title \in QueryTitles, top_n \in TopNs :
          out' = [op |-> "get_recommendations", arg |-> {song_title}, top_n |-> top_n,
                  ret |-> get_recommendations(song_title, top_n),
                  status |-> 0, body |-> NoBody]
    /\ UNCHANGED <<api_data, matrix_file, proc, df_scaled, similarity_matrix, indices,
                   songs, db_state, pc, conn, mood_of, resp>>

\* GET /recommend?song=...
RequestRecommend ==
    /\ proc = "serving"
    /\ out = NoOut
    /\ \E arg \in {None} \cup {{s} : s \in QueryTitles} :
          out' = recommend_songs(arg)
    /\ UNCHANGED <<api_data, matrix_file, proc, df_scaled, similarity_matrix, indices,
                   songs, db_state, pc, conn, mood_of, resp>>

\* the caller takes the result; the process keeps nothing of the call (lines 54,
\* 65, 73, 78 return) and is ready for the next one
Return ==
    /\ proc = "serving"
    /\ out # NoOut
    /\ out' = NoOut
    /\ UNCHANGED <<api_data, matrix_file, proc, df_scaled, similarity_matrix, indices,
                   songs, db_state, pc, conn, mood_of, resp>>

NoRequests == [r \in {} |-> ""]

\* before startup: each artifact is absent or holds a catalog / a matrix
Init ==
    /\ api_data \in {Absent} \cup {CatalogOfSize(n) : n \in 0..MaxN}
    /\ matrix_file \in {Absent} \cup UNION {Matrices(d) : d \in 1..MaxN}
    /\ proc = "starting"
    /\ df_scaled = <<>>
    /\ similarity_matrix = <<>>
    /\ indices = <<>>
    /\ out = NoOut
    /\ songs = <<>>
    /\ db_state = "ok"
    /\ pc = NoRequests
    /\ conn = NoRequests
    /\ mood_of = NoRequests
    /\ resp = NoRequests

Next == Load \/ CallGetRecommendations \/ RequestRecommend \/ Return

Spec == Init /\ [][Next]_vars

----------------------------------------------------------------------------
(* Properties of startup and of Recommend, checked under Spec *)

\* the last operation called get_recommendations (directly or from the endpoint)
Recommended == out.ret.kind # ""

\* the title it was called with
Queried == CHOOSE s \in out.arg : TRUE

\* the loaded matrix is square and as large as the loaded catalog
SizesMatch ==
    /\ NRows(similarity_matrix) = NRows(df_scaled)
    /\ \A i \in DOMAIN similarity_matrix :
          NRows(similarity_matrix[i]) = NRows(df_scaled)

\* the score of position p in the queried row
ScoreOf(p) == similarity_matrix[indices[Queried]][p]

Contains(text, part) ==
    \E i \in 1..(Len(text) - Len(part) + 1) : SubSeq(text, i, i + Len(part) - 1) = part

\* C1: with a matrix as large as the catalog, a title of the Title Index and a
\* positive topN, the titles Recommend returns never include the queried title,
\* also when another position's score equals the self-similarity.
C1_NeverSelf ==
    (Recommended /\ SizesMatch /\ Queried \in DOMAIN indices /\ out.top_n > 0)
        => /\ out.ret.kind = "Series"
           /\ \A k \in 1..Len(out.ret.titles) : out.ret.titles[k] # Queried

\* C2: for a title of the catalog and a positive topN, Recommend returns
\* exactly min(topN, CatalogSize - 1) titles.
C2_Length ==
    (Recommended /\ Queried \in DOMAIN indices /\ out.top_n > 0)
        => /\ out.ret.kind = "Series"
           /\ Len(out.ret.titles) = Min(out.top_n, NRows(df_scaled) - 1)

\* C3: the returned titles are in order of non-increasing score in the queried
\* row, and of two returned positions with equal scores the lower comes first.
C3_Ordered ==
    (Recommended /\ out.ret.kind = "Series")
        => \A k, l \in 1..Len(out.ret.positions) :
              k < l =>
                 LET p == out.ret.positions[k]
                     q == out.ret.positions[l]
                 IN  /\ out.ret.titles[k] = df_scaled[p].title
                     /\ ScoreOf(p) >= ScoreOf(q)
                     /\ ScoreOf(p) = ScoreOf(q) => p < q

\* C3's case: two positions with equal scores, below the self-similarity, are
\* returned
C3_Witness ==
    /\ Recommended /\ out.ret.kind = "Series" /\ Len(out.ret.positions) >= 2
    /\ ScoreOf(out.ret.positions[1]) = ScoreOf(out.ret.positions[2])
    /\ ScoreOf(out.ret.positions[1]) < MaxScore

\* C4: Recommend returns the not-found error, carrying the title, exactly for
\* the titles that are no key of the Title Index, never a list for them; the
\* endpoint answers such a title with an error body and never with 200.
C4_NotFound ==
    /\ Recommended =>
          /\ Queried \notin DOMAIN indices
                => /\ out.ret.kind = "str"
                   /\ Contains(out.ret.text, Queried)
                   /\ out.ret.titles = <<>>
                   /\ out.op = "recommend_songs"
                         => /\ out.status = 404
                            /\ Contains(out.body.error, Queried)
          /\ Queried \in DOMAIN indices
                => /\ out.ret.kind # "str"
                   /\ out.status # 404
    /\ (out.op = "recommend_songs" /\ out.arg # None /\ Queried \notin DOMAIN indices)
          => /\ out.status \in {400, 404}
             /\ out.body.key = "error"
             /\ out.body.recommendations = <<>>

\* C4's case: the endpoint was asked for a title that is no key while the
\* catalog holds other titles
C4_Witness ==
    /\ out.op = "recommend_songs" /\ Recommended
    /\ Queried = "Unknown Song" /\ DOMAIN indices # {}
    /\ out.status = 404

\* C8: a topN that is zero or negative makes Recommend fail with
\* InvalidArgument, whatever the title, and return no recommendation list.
C8_InvalidArgument ==
    (out.op = "get_recommendations" /\ out.top_n <= 0)
        => out.ret.kind = "raise" /\ out.ret.text = "InvalidArgument"

\* C9: the process serves only if both artifacts are present and the matrix is
\* square with the catalog's row count as its dimension; otherwise startup
\* fails and no request is served.
C9_ValidatedStartup ==
    LET valid == /\ api_data # Absent /\ matrix_file # Absent
                 /\ NRows(matrix_file) = NRows(api_data)
                 /\ \A i \in DOMAIN matrix_file :
                       NRows(matrix_file[i]) = NRows(api_data)
    IN  /\ proc = "serving" => valid
        /\ ~valid => out = NoOut

----------------------------------------------------------------------------
(* The /trending endpoint: app.py lines 81-118 *)

\* ArtistNames is in ascending string order; the rank of a value in that order
ArtistRank(a) == CHOOSE k \in 1..Len(ArtistNames) : ArtistNames[k] = a

\* df['popularity'].idxmax(): the first row holding the maximum
IdxMax(df) ==
    CHOOSE i \in DOMAIN df :
        /\ \A j \in DOMAIN df : df[j].popularity <= df[i].popularity
        /\ \A j \in DOMAIN df : df[j].popularity = df[i].popularity => i <= j

\* df['artists'].value_counts().loc[a]: the number of rows whose artists is a
ValueCount(df, a) == Cardinality({i \in DOMAIN df : df[i].artists = a})

\* the first row whose artists is a
FirstOccurrence(df, a) == CHOOSE i \in DOMAIN df :
    df[i].artists = a /\ \A j \in DOMAIN df : df[j].artists = a => i <= j

\* the artists values whose count is maximal
Modes(df) ==
    {df[i].artists : i \in {i \in DOMAIN df :
        \A j \in DOMAIN df : ValueCount(df, df[j].artists) <= ValueCount(df, df[i].artists)}}

\* the mode whose first occurrence is earliest
ModeByFirstOccurrence(df) ==
    CHOOSE a \in Modes(df) :
        \A b \in Modes(df) : FirstOccurrence(df, a) <= FirstOccurrence(df, b)

\* df['artists'].mode()[0]: Series.mode() returns the modes SORTED ascending,
\* so element 0 is the least of them
Mode0(df) ==
    CHOOSE a \in Modes(df) : \A b \in Modes(df) : ArtistRank(a) <= ArtistRank(b)

NoSong == [name |-> "", artists |-> "", popularity |-> 0]

NoArtist == [artists |-> "", song_count_in_dataset |-> 0]

NoTrending == [op |-> "", status |-> 0, error |-> "",
               most_popular_song |-> NoSong,
               most_frequent_artist_in_dataset |-> NoArtist]

\* the response of get_trending; on an empty catalog idxmax raises ValueError,
\* which the handler answers with 500
get_trending(df) ==
    IF DOMAIN df = {}
    THEN [op |-> "get_trending", status |-> 500,
          error |-> "attempt to get argmax of an empty sequence",
          most_popular_song |-> NoSong, most_frequent_artist_in_dataset |-> NoArtist]
    ELSE LET popular_song == df[IdxMax(df)]
             most_frequent_artist_name == Mode0(df)
             artist_song_count == ValueCount(df, most_frequent_artist_name)
         IN  [op |-> "get_trending", status |-> 200, error |-> "",
              most_popular_song |->
                  [name |-> popular_song.name, artists |-> popular_song.artists,
                   popularity |-> popular_song.popularity],
              most_frequent_artist_in_dataset |->
                  [artists |-> most_frequent_artist_name,
                   song_count_in_dataset |-> artist_song_count]]

\* GET /trending
RequestTrending ==
    /\ proc = "serving"
    /\ out' = get_trending(df_scaled)
    /\ UNCHANGED <<api_data, matrix_file, proc, df_scaled, similarity_matrix, indices,
                   songs, db_state, pc, conn, mood_of, resp>>

\* the catalogs of n rows: row i is song i, by any artist, of any popularity
TrendingCatalogs(n) ==
    {[i \in 0..(n - 1) |-> Row(SongNames[i + 1], f[i][1], f[i][2])] :
        f \in [0..(n - 1) ->
                 {ArtistNames[k] : k \in 1..MaxArtists} \X (0..MaxPopularity)]}

\* a serving process whose catalog is any of the catalogs above
InitTrending ==
    /\ df_scaled \in UNION {TrendingCatalogs(n) : n \in 0..MaxN}
    /\ api_data = df_scaled
    /\ matrix_file = MatrixOf(NRows(df_scaled), [p \in Pairs(NRows(df_scaled)) |-> 0])
    /\ similarity_matrix = matrix_file
    /\ indices = TitleIndex(df_scaled)
    /\ proc = "serving"
    /\ out = NoTrending
    /\ songs = <<>>
    /\ db_state = "ok"
    /\ pc = NoRequests
    /\ conn = NoRequests
    /\ mood_of = NoRequests
    /\ resp = NoRequests

NextTrending == RequestTrending

SpecTrending == InitTrending /\ [][NextTrending]_vars

Trended == out.op = "get_trending" /\ out.status = 200

Reported == out.most_frequent_artist_in_dataset

\* C7 (as claimed): on a non-empty catalog the reported artists value has the
\* maximal number of occurrences, the reported count is that number, and of
\* several values with the maximal count the one occurring first is reported.
C7_FirstOccurrenceOnTies ==
    (out.op = "get_trending" /\ DOMAIN df_scaled # {})
        => /\ out.status = 200
           /\ Reported.artists \in Modes(df_scaled)
           /\ Reported.song_count_in_dataset = ValueCount(df_scaled, Reported.artists)
           /\ \A b \in Modes(df_scaled) :
                 FirstOccurrence(df_scaled, Reported.artists)
                     <= FirstOccurrence(df_scaled, b)

\* C7 (amended): on a non-empty catalog the reported artists value occurs in
\* some row, no value occurs in more rows, the reported count is its number
\* of rows, and no value with as many rows precedes it in string order.
C7_LeastOnTies ==
    (out.op = "get_trending" /\ DOMAIN df_scaled # {})
        => /\ out.status = 200
           /\ \E i \in DOMAIN df_scaled : df_scaled[i].artists = Reported.artists
           /\ Reported.song_count_in_dataset =
                 Cardinality({i \in DOMAIN df_scaled :
                                 df_scaled[i].artists = Reported.artists})
           /\ \A j \in DOMAIN df_scaled :
                 LET n == Cardinality({i \in DOMAIN df_scaled :
                                          df_scaled[i].artists = df_scaled[j].artists})
                 IN  /\ n <= Reported.song_count_in_dataset
                     /\ n = Reported.song_count_in_dataset
                           => ArtistRank(Reported.artists)
                                 <= ArtistRank(df_scaled[j].artists)

\* C7's case: two artists values tie for the maximal count and the one that
\* occurs first is not the one reported
C7_Witness ==
    /\ Trended
    /\ Cardinality(Modes(df_scaled)) >= 2
    /\ df_scaled[0].artists \in Modes(df_scaled)
    /\ Reported.artists # df_scaled[0].artists
    /\ Reported.song_count_in_dataset >= 1

----------------------------------------------------------------------------
(* The /recommend_mood endpoint: app.py lines 121-181 *)

\* the WHERE clauses of lines 132-153, each as its conjuncts <<column, op, value>>
MoodProfiles ==
    [happy |->
        << <<"valence", ">", 70>>, <<"energy", ">", 60>>, <<"danceability", ">", 50>> >>,
     sad |->
        << <<"valence", "<", 30>>, <<"energy", "<", 40>>, <<"tempo", "<", 100>> >>,
     energetic |->
        << <<"energy", ">", 80>>, <<"tempo", ">", 120>> >>,
     calm |->
        << <<"energy", "<", 30>>, <<"tempo", "<", 100>>, <<"valence", ">", 40>> >>,
     romantic |->
        << <<"valence", ">", 60>>, <<"energy", "<", 60>>, <<"speechiness", "<", 8>> >>,
     angry |->
        << <<"energy", ">", 80>>, <<"valence", "<", 30>>, <<"tempo", ">", 110>> >>,
     nostalgic |->
        << <<"valence", ">", 50>>, <<"energy", "<", 50>>, <<"tempo", "<", 110>> >>,
     focused |->
        << <<"speechiness", "<", 5>>, <<"energy", "<", 30>>, <<"liveness", "<", 10>> >>,
     chill |->
        << <<"energy", "<", 40>>, <<"tempo", "<", 110>>, <<"liveness", "<", 20>> >>,
     workout |->
        << <<"energy", ">", 75>>, <<"tempo", ">", 120>>, <<"danceability", ">", 60>> >>,
     party |->
        << <<"energy", ">", 70>>, <<"danceability", ">", 70>>, <<"valence", ">", 60>> >>]

\* a chain that also accepts a capitalised label
query_filter_AnyCase(mood) ==
    IF mood \in DOMAIN MoodProfiles THEN MoodProfiles[mood]
    ELSE IF mood = "Happy" THEN MoodProfiles["happy"] ELSE << >>

\* the if/elif chain on mood == '...': the clause of the label that equals mood;
\* << >> is the else branch ("Invalid mood provided."), which sets no clause
query_filter(mood) ==
    IF mood \in DOMAIN MoodProfiles THEN MoodProfiles[mood] ELSE << >>

\* a comparison that also accepts the threshold itself
CompareLoose(row, c) ==
    IF c[2] = ">" THEN row[c[1]] >= c[3] ELSE row[c[1]] <= c[3]

\* one SQL comparison "column op value" on a row, as SQLite evaluates it
Compare(row, c) ==
    IF c[2] = ">" THEN row[c[1]] > c[3] ELSE row[c[1]] < c[3]

\* the WHERE clause on a row: the conjunction of its comparisons
Where(row, filter) == \A k \in 1..Len(filter) : Compare(row, filter[k])

\* ORDER BY popularity DESC: insert row x into the sorted list s. SQL does not
\* define the order of rows with equal popularity; tie says which the scan yields
InsertByPopularity(s, x, tie) ==
    LET n == Cardinality({k \in 1..Len(s) :
                 IF tie = "rowid" THEN s[k].popularity >= x.popularity
                                  ELSE s[k].popularity > x.popularity})
    IN  SubSeq(s, 1, n) \o <<x>> \o SubSeq(s, n + 1, Len(s))

RECURSIVE OrderByPopularityFrom(_, _, _, _)
OrderByPopularityFrom(s, k, acc, tie) ==
    IF k > Len(s) THEN acc
    ELSE OrderByPopularityFrom(s, k + 1, InsertByPopularity(acc, s[k], tie), tie)

OrderByPopularity(s, tie) == OrderByPopularityFrom(s, 1, <<>>, tie)

\* LIMIT 5
Limit == 5

\* dict(row) of a row of SELECT name, artists, title
Project(row) == [name |-> row.name, artists |-> row.artists, title |-> row.title]

\* SELECT name, artists, title FROM songs {query_filter}
\* ORDER BY popularity DESC LIMIT 5
Select(filter, tie) ==
    LET matching == SelectSeq(songs, LAMBDA row : Where(row, filter))
        ordered == OrderByPopularity(matching, tie)
        limited == SubSeq(ordered, 1, Min(Limit, Len(ordered)))
    IN  [k \in 1..Len(limited) |-> Project(limited[k])]

Requests == DOMAIN pc

NoResp == [status |-> 0, key |-> "", error |-> "", recommendations |-> <<>>]

ErrorResp(status, text) ==
    [status |-> status, key |-> "error", error |-> text, recommendations |-> <<>>]

MoodNames == {"happy", "sad", "energetic", "calm", "romantic", "angry",
              "nostalgic", "focused", "chill", "workout", "party"}

\* the mood parameters clients send: none, empty, the labels, and others
MoodArgs == {None} \cup {{m} : m \in MoodNames \cup {"", "Happy", "sleepy"}}

\* lines 124-155: read the parameter and choose the WHERE clause
ReceiveMood(r) ==
    /\ pc[r] = "idle"
    /\ \E arg \in MoodArgs :
          /\ mood_of' = [mood_of EXCEPT ![r] = arg]
          /\ IF arg = None \/ arg = {""}
             THEN /\ resp' = [resp EXCEPT ![r] =
                         ErrorResp(400, "A \"mood\" query parameter is required.")]
                  /\ pc' = [pc EXCEPT ![r] = "done"]
             ELSE IF query_filter(CHOOSE m \in arg : TRUE) = << >>
                  THEN /\ resp' = [resp EXCEPT ![r] =
                              ErrorResp(400, "Invalid mood provided.")]
                       /\ pc' = [pc EXCEPT ![r] = "done"]
                  ELSE /\ resp' = resp
                       /\ pc' = [pc EXCEPT ![r] = "connect"]
    /\ UNCHANGED <<api_data, matrix_file, proc, df_scaled, similarity_matrix, indices,
                   out, songs, db_state, conn>>

\* line 158: sqlite3.connect('music.db') returns a connection
Connect(r) ==
    /\ pc[r] = "connect"
    /\ conn' = [conn EXCEPT ![r] = "open"]
    /\ pc' = [pc EXCEPT ![r] = "execute"]
    /\ UNCHANGED <<api_data, matrix_file, proc, df_scaled, similarity_matrix, indices,
                   out, songs, db_state, mood_of, resp>>

\* line 158: sqlite3.connect raises (the file cannot be opened); line 180 answers
ConnectFails(r) ==
    /\ pc[r] = "connect"
    /\ resp' = [resp EXCEPT ![r] = ErrorResp(500, "unable to open database file")]
    /\ pc' = [pc EXCEPT ![r] = "done"]
    /\ UNCHANGED <<api_data, matrix_file, proc, df_scaled, similarity_matrix, indices,
                   out, songs, db_state, conn, mood_of>>

\* line 171: cursor.execute(query); without table songs it raises and line 180
\* answers, leaving line 173 unexecuted
Execute(r) ==
    /\ pc[r] = "execute"
    /\ IF db_state = "no_table"
       THEN /\ resp' = [resp EXCEPT ![r] = ErrorResp(500, "no such table: songs")]
            /\ pc' = [pc EXCEPT ![r] = "done"]
       ELSE /\ resp' = resp
            /\ pc' = [pc EXCEPT ![r] = "fetch"]
    /\ UNCHANGED <<api_data, matrix_file, proc, df_scaled, similarity_matrix, indices,
                   out, songs, db_state, conn, mood_of>>

\* line 172: songs_rows = cursor.fetchall(); a stored text that is not UTF-8
\* makes it raise and line 180 answers, leaving line 173 unexecuted
Fetch(r) ==
    /\ pc[r] = "fetch"
    /\ IF db_state = "bad_text"
       THEN /\ resp' = [resp EXCEPT ![r] = ErrorResp(500, "Could not decode to UTF-8")]
            /\ pc' = [pc EXCEPT ![r] = "done"]
       ELSE /\ \E tie \in {"rowid", "reverse"} :
                  resp' = [resp EXCEPT ![r] =
                      [status |-> 0, key |-> "recommendations", error |-> "",
                       recommendations |->
                           Select(query_filter(CHOOSE m \in mood_of[r] : TRUE), tie)]]
            /\ pc' = [pc EXCEPT ![r] = "close"]
    /\ UNCHANGED <<api_data, matrix_file, proc, df_scaled, similarity_matrix, indices,
                   out, songs, db_state, conn, mood_of>>

\* lines 173-178: conn.close(), then the rows are returned
Close(r) ==
    /\ pc[r] = "close"
    /\ conn' = [conn EXCEPT ![r] = "closed"]
    /\ resp' = [resp EXCEPT ![r].status = 200]
    /\ pc' = [pc EXCEPT ![r] = "done"]
    /\ UNCHANGED <<api_data, matrix_file, proc, df_scaled, similarity_matrix, indices,
                   out, songs, db_state, mood_of>>

NextMood ==
    \/ \E r \in Requests : ReceiveMood(r)
    \/ \E r \in Requests : Connect(r)
    \/ \E r \in Requests : ConnectFails(r)
    \/ \E r \in Requests : Execute(r)
    \/ \E r \in Requests : Fetch(r)
    \/ \E r \in Requests : Close(r)

\* popularity_threshold = 30: fix_database.py keeps the rows above it
popularity_threshold == 30

\* a value just inside comparison c
InsideValue(c) == IF c[2] = ">" THEN c[3] + 1 ELSE c[3] - 1

\* the value of a column in a row built for a WHERE clause: just inside each
\* comparison, except that comparison number edge is met with equality
FeatureValue(filter, col, edge) ==
    IF \E k \in 1..Len(filter) : filter[k][1] = col
    THEN LET k == CHOOSE k \in 1..Len(filter) : filter[k][1] = col
         IN  IF k = edge THEN filter[k][3] ELSE InsideValue(filter[k])
    ELSE IF col = "tempo" THEN 105 ELSE 50

\* a row of table songs as fix_database.py writes it
SongRow(i, filter, edge, popularity) ==
    [name |-> SongNames[i], artists |-> ArtistNames[i],
     title |-> MakeTitle(SongNames[i], ArtistNames[i]),
     popularity |-> popularity, play_count |-> 0,
     valence |-> FeatureValue(filter, "valence", edge),
     energy |-> FeatureValue(filter, "energy", edge),
     danceability |-> FeatureValue(filter, "danceability", edge),
     tempo |-> FeatureValue(filter, "tempo", edge),
     speechiness |-> FeatureValue(filter, "speechiness", edge),
     liveness |-> FeatureValue(filter, "liveness", edge)]

\* the rows of edges (one per comparison met with equality, the most popular of
\* the table), then n rows inside the clause, of three popularities
MoodTable(filter, edges, n) ==
    LET edge_rows == SelectSeq([k \in 1..Len(filter) |-> k], LAMBDA k : k \in edges)
    IN  [k \in 1..Len(edge_rows) |->
            SongRow(k, filter, edge_rows[k], popularity_threshold + 10)]
        \o [j \in 1..n |->
            SongRow(Len(filter) + j, filter, 0, popularity_threshold + 1 + (j % 3))]

\* the table of section 8 of the specification: A (energy 0.9, tempo 130) and
\* B (energy 0.2, tempo 90)
ExampleTable ==
    << [SongRow(1, << >>, 0, popularity_threshold + 1)
           EXCEPT !.energy = 90, !.tempo = 130],
       [SongRow(2, << >>, 0, popularity_threshold + 20)
           EXCEPT !.energy = 20, !.tempo = 90] >>

MoodTables ==
    {ExampleTable} \cup
    {MoodTable(MoodProfiles[f], edges, n) :
        f \in DOMAIN MoodProfiles, edges \in SUBSET (1..3), n \in 0..MaxInside}

InitRequests(n) ==
    /\ api_data = CatalogOfSize(0)
    /\ matrix_file = MatrixOf(0, << >>)
    /\ df_scaled = api_data
    /\ similarity_matrix = matrix_file
    /\ indices = TitleIndex(df_scaled)
    /\ proc = "serving"
    /\ out = NoOut
    /\ pc = [r \in 1..n |-> "idle"]
    /\ conn = [r \in 1..n |-> "none"]
    /\ mood_of = [r \in 1..n |-> None]
    /\ resp = [r \in 1..n |-> NoResp]

\* the states of music.db besides a readable table: no table at all (the file
\* is created empty by sqlite3.connect when fix_database.py never ran), or the
\* example rows with a text that does not decode
BrokenDatabase ==
    \/ db_state = "no_table" /\ songs = << >>
    \/ db_state = "bad_text" /\ songs = ExampleTable

\* one request against any of the tables
InitMood ==
    /\ InitRequests(1)
    /\ \/ db_state = "ok" /\ songs \in MoodTables
       \/ BrokenDatabase

SpecMood == InitMood /\ [][NextMood]_vars

\* MaxRequests concurrent requests against the example table
InitConn ==
    /\ InitRequests(MaxRequests)
    /\ \/ db_state = "ok" /\ songs = ExampleTable
       \/ BrokenDatabase

SpecConn == InitConn /\ [][NextMood]_vars

----------------------------------------------------------------------------
(* Properties of RecommendByMood, checked under SpecMood and SpecConn *)

\* the mood string request r sent
MoodSent(r) == CHOOSE m \in mood_of[r] : TRUE

InvalidMood(r) == resp[r].status = 400 /\ resp[r].error = "Invalid mood provided."

\* C5 (as claimed): every mood string that is not one of the 11 labels gets
\* InvalidMood, without a store connection; each of the 11 labels never does.
C5_EveryOtherString ==
    \A r \in Requests :
        (pc[r] # "idle" /\ mood_of[r] # None)
            => IF MoodSent(r) \in MoodNames
               THEN ~InvalidMood(r)
               ELSE InvalidMood(r) /\ conn[r] = "none"

\* C5 (amended): every non-empty mood string that is not one of the 11 labels
\* gets InvalidMood, a 400 error that is not the 404 of NotFound, without a
\* store connection being opened; each of the 11 labels never gets InvalidMood.
C5_EveryOtherNonEmptyString ==
    \A r \in Requests :
        (pc[r] # "idle" /\ mood_of[r] # None /\ MoodSent(r) # "")
            => IF MoodSent(r) \in MoodNames
               THEN ~InvalidMood(r)
               ELSE /\ pc[r] = "done" /\ InvalidMood(r)
                    /\ resp[r].key = "error" /\ resp[r].status # 404
                    /\ resp[r].recommendations = << >>
                    /\ conn[r] = "none"

\* C5's case: a label in another case was sent and refused, and so was answered
\* without a connection
C5_Witness ==
    \E r \in Requests :
        /\ pc[r] = "done" /\ mood_of[r] = {"Happy"} /\ InvalidMood(r)
        /\ \E k \in 1..Len(songs) : songs[k].valence > 70

\* the rows of table songs with a given title
RowsTitled(t) == {k \in 1..Len(songs) : songs[k].title = t}

\* row satisfies comparison c strictly
Strictly(row, c) ==
    /\ row[c[1]] # c[3]
    /\ c[2] = ">" => row[c[1]] > c[3]
    /\ c[2] = "<" => row[c[1]] < c[3]

Answered(r) == pc[r] = "done" /\ resp[r].status = 200

\* C6: every row returned for a mood is a row of the table that satisfies each
\* threshold of that mood strictly, never one that equals a threshold; for
\* 'energetic' that is energy > 0.8 and tempo > 120, and on the example table
\* (A: 0.9, 130; B: 0.2, 90) 'energetic' returns A only.
C6_StrictThresholds ==
    \A r \in Requests :
        Answered(r) =>
            /\ MoodSent(r) \in MoodNames
            /\ \A i \in 1..Len(resp[r].recommendations) :
                  LET item == resp[r].recommendations[i]
                  IN  /\ RowsTitled(item.title) # {}
                      /\ \A k \in RowsTitled(item.title) :
                            /\ item = Project(songs[k])
                            /\ \A j \in 1..Len(MoodProfiles[MoodSent(r)]) :
                                  Strictly(songs[k], MoodProfiles[MoodSent(r)][j])
                            /\ MoodSent(r) = "energetic"
                                  => songs[k].energy > 80 /\ songs[k].tempo > 120
            /\ (MoodSent(r) = "energetic" /\ songs = ExampleTable)
                  => resp[r].recommendations = <<Project(ExampleTable[1])>>

\* C6's case: a mood was answered with some rows while the table holds a more
\* popular row that equals one of the mood's thresholds, which is not returned
C6_Witness ==
    \E r \in Requests :
        /\ Answered(r) /\ resp[r].recommendations # << >>
        /\ \E k \in 1..Len(songs) :
              /\ \E j \in 1..Len(MoodProfiles[MoodSent(r)]) :
                    LET c == MoodProfiles[MoodSent(r)][j]
                    IN  songs[k][c[1]] = c[3]
              /\ \A i \in 1..Len(resp[r].recommendations) :
                    /\ resp[r].recommendations[i].title # songs[k].title
                    /\ \A l \in RowsTitled(resp[r].recommendations[i].title) :
                          songs[l].popularity < songs[k].popularity

\* C10: no request completes with its store connection still open, on the
\* success path and on every error path, whatever the other requests do.
C10_ClosedOnCompletion ==
    \A r \in Requests : pc[r] = "done" => conn[r] # "open"

====
